---------------------------- MODULE Spec2Model ----------------------------
(***************************************************************************)
(* wrfcloud/runtime/tools/geojson.py: conversion of a WRF field to GeoJSON *)
(* (GeoJson.convert and its helpers) and the batch driver                  *)
(* (_automate_products) that fans conversions out over a process pool.     *)
(*                                                                         *)
(* Numbers.  Python floats are modelled in fixed point:                    *)
(*   - value ranges and contour intervals in hundredths (0.25 is 25);      *)
(*   - grid-index coordinates in millionths (1.5 is 1500000);              *)
(*   - latitudes and longitudes in units of 1e-5 degree, the precision     *)
(*     round(., 5) keeps.                                                  *)
(* None is the empty tuple, any other optional value v the tuple <<v>>.    *)
(***************************************************************************)
EXTENDS Integers, Sequences, FiniteSets, TLC

VARIABLES
    file_type,   \* _automate_products: the file_type argument
    products,    \* _automate_products: the product list loaded from the yaml
    pc,          \* _automate_products: position of the scheduler
    pi,          \* index of the product the outer loop is at
    zi,          \* index of the z-level the inner loop is at
    futures,     \* the futures list, each with its task and the state of its future
    wi,          \* index of the future the result() loop is at
    exc,         \* the exception _automate_products has raised, or "none"
    files,       \* the output files on disk: path -> state, content, writers
    lv,          \* one evaluation of the threshold list of convert
    mp,          \* one call of _grid_to_lonlat
    cv           \* one call of convert through _manual_product

vars == <<file_type, products, pc, pi, zi, futures, wi, exc, files, lv, mp, cv>>

batchVars == <<file_type, products, pc, pi, zi, futures, wi, exc, files>>

\* an optional value: None, or Some(v) for the value v
None == <<>>
Some(v) == <<v>>

\* lv, mp and cv while they are not in use, and their result before the call
Idle == [done |-> FALSE]
NotCalled == [exc |-> "not called"]

(***************************************************************************)
(* Python arithmetic                                                       *)
(***************************************************************************)

\* int(): truncation towards zero of n/d (d > 0)
IntTrunc(n, d) == IF n >= 0 THEN n \div d ELSE -((-n) \div d)

\* round(): n/d rounded to the nearest integer, ties to even (d > 0)
RoundDiv(n, d) ==
    LET q == n \div d
        r == n - q * d
    IN  IF 2 * r < d THEN q
        ELSE IF 2 * r > d THEN q + 1
        ELSE IF q % 2 = 0 THEN q ELSE q + 1

\* list(range(a, b, s)); range() raises ValueError for s = 0
RECURSIVE RangeFrom(_, _, _)
RangeFrom(a, b, s) ==
    IF (s > 0 /\ a < b) \/ (s < 0 /\ a > b)
    THEN <<a>> \o RangeFrom(a + s, b, s)
    ELSE <<>>

PyRange(a, b, s) ==
    IF s = 0 THEN [exc |-> "ValueError", list |-> <<>>]
    ELSE [exc |-> "none", list |-> RangeFrom(a, b, s)]

\* str() of an integer
Digit(d) == <<"0", "1", "2", "3", "4", "5", "6", "7", "8", "9">>[d + 1]

RECURSIVE StrNat(_)
StrNat(n) == IF n < 10 THEN Digit(n) ELSE StrNat(n \div 10) \o Digit(n % 10)

Str(n) == IF n < 0 THEN "-" \o StrNat(-n) ELSE StrNat(n)

\* a[i] on a sequence of length n: the 1-based position, 0 for an IndexError
\* (negative indices count from the end)
PyIndex(n, i) ==
    IF i >= 0 /\ i < n THEN i + 1
    ELSE IF i < 0 /\ i >= -n THEN n + i + 1
    ELSE 0

(***************************************************************************)
(* GeoJson.convert, lines 67-71: the threshold list                        *)
(***************************************************************************)

\* as Levels, with the upper end of the range included
LevelsInclusive(min, max, contour_interval) ==
    LET range_min == IntTrunc(min, 10)
        range_max == IntTrunc(max, 10)
        ci == IntTrunc(contour_interval, 10)
        r == PyRange(range_min, range_max + 1, ci)
    IN  [exc |-> r.exc, levels |-> [k \in 1..Len(r.list) |-> 10 * r.list[k]]]

\* min, max, contour_interval and the levels in hundredths
Levels(min, max, contour_interval) ==
    LET range_min == IntTrunc(min, 10)
        range_max == IntTrunc(max, 10)
        ci == IntTrunc(contour_interval, 10)
        r == PyRange(range_min, range_max, ci)
    IN  [exc |-> r.exc, levels |-> [k \in 1..Len(r.list) |-> 10 * r.list[k]]]

(***************************************************************************)
(* GeoJson._grid_to_lonlat                                                 *)
(***************************************************************************)

Micro == 1000 * 1000

\* the coordinate grids of the file: rows x cols values in 1e-5 degree
GridLat(r, c) == 400 - 30 * r + 3 * c
GridLon(r, c) == -900 + 5 * r + 40 * c

\* grid[row][col] with Python's indexing; ok is FALSE for an IndexError
GridAt(grid, isLat, row, col) ==
    LET r == PyIndex(grid.rows, row)
        c == PyIndex(grid.cols, col)
    IN  IF r = 0 \/ c = 0 THEN [ok |-> FALSE, v |-> 0]
        ELSE [ok |-> TRUE,
              v |-> IF isLat THEN GridLat(r - 1, c - 1) ELSE GridLon(r - 1, c - 1)]

\* x and y in millionths of a grid cell
grid_to_lonlat(grid, x, y) ==
    LET x1 == IntTrunc(x, Micro)
        y1 == IntTrunc(y, Micro)
        \* round(x, 5) keeps tens of millionths
        x2 == IF x1 * Micro # 10 * RoundDiv(x, 10) THEN x1 + 1 ELSE x1
        y2 == IF y1 * Micro # 10 * RoundDiv(y, 10) THEN y1 + 1 ELSE y1
        lat1 == GridAt(grid, TRUE, y1, x1)
        lon1 == GridAt(grid, FALSE, y1, x1)
        lat2 == GridAt(grid, TRUE, y2, x2)
        lon2 == GridAt(grid, FALSE, y2, x2)
        x_frac == x - x1 * Micro
        y_frac == y - y1 * Micro
        lat == lat1.v * Micro + (lat2.v - lat1.v) * y_frac
        lon == lon1.v * Micro + (lon2.v - lon1.v) * x_frac
    IN  IF ~lat1.ok \/ ~lon1.ok \/ ~lat2.ok \/ ~lon2.ok
        THEN [exc |-> "IndexError", lon |-> 0, lat |-> 0]
        ELSE [exc |-> "none", lon |-> RoundDiv(lon, Micro), lat |-> RoundDiv(lat, Micro)]

(***************************************************************************)
(* GeoJson.convert                                                         *)
(*                                                                         *)
(* The readers, pyplot.contourf and the file system are outside the        *)
(* module; what they do in one call is the environment env of that call:   *)
(*   env.fault     "none", or the step that raises: "read" (the reader),   *)
(*                 "open" (open(out_file, 'wb')) or "write" (file.write,   *)
(*                 after open has created the file);                       *)
(*   env.grid      the shape of the grids the reader returns;              *)
(*   env.contours  contours.collections as contourf returns it: per band   *)
(*                 the list of its paths, each path as the list of         *)
(*                 polygons path.to_polygons() gives, each polygon a list  *)
(*                 of <<x, y>> vertices.                                   *)
(***************************************************************************)

SupportedTypes == {"grib2", "netcdf"}

\* colors.rgb2hex(contours.tcolors[i][0]): the colour the palette gives band i
LevelColor(palette, i) == <<palette, i>>

\* the points of one polygon, each the result of _grid_to_lonlat (a record
\* with its own exc: the first call that raises ends convert)
polygon_to_coord_array(grid, polygon) ==
    [k \in 1..Len(polygon) |-> grid_to_lonlat(grid, polygon[k][1], polygon[k][2])]

\* whether _polygon_to_coord_array raises on this polygon
CoordArrayRaises(grid, polygon) ==
    \E k \in 1..Len(polygon) :
        grid_to_lonlat(grid, polygon[k][1], polygon[k][2]).exc # "none"

\* the parsed coordinate string: the outer ring, then the holes
polygon_and_holes_to_multi_polygon(polygon, holes) ==
    <<[k \in 1..Len(polygon) |-> <<polygon[k].lon, polygon[k].lat>>]>>
    \o [h \in 1..Len(holes) |->
          [k \in 1..Len(holes[h]) |-> <<holes[h][k].lon, holes[h][k].lat>>]]

\* as SkipPath, skipping the paths without holes as well
SkipPathWithoutHoles(path_polygons) == Len(path_polygons) <= 1

\* line 89: skip if there are no polygons
SkipPath(path_polygons) == Len(path_polygons) = 0

\* lines 93-113: the feature of one path
PathFeature(grid, path_polygons, level_color) ==
    LET outer_polygon == polygon_to_coord_array(grid, path_polygons[1])
        holes == [h \in 1..(Len(path_polygons) - 1) |->
                    polygon_to_coord_array(grid, path_polygons[h + 1])]
    IN  [type |-> "Feature",
         geometry |->
           [type |-> "MultiPolygon",
            coordinates |-> <<polygon_and_holes_to_multi_polygon(outer_polygon, holes)>>],
         properties |-> [fill |-> level_color]]

\* lines 83-116: the loop over the paths of one band
RECURSIVE PathsFeatures(_, _, _)
PathsFeatures(grid, paths, level_color) ==
    IF paths = <<>> THEN <<>>
    ELSE (IF SkipPath(Head(paths)) THEN <<>>
          ELSE <<PathFeature(grid, Head(paths), level_color)>>)
         \o PathsFeatures(grid, Tail(paths), level_color)

\* lines 78-116: the loop over the bands, from band i on
RECURSIVE BandsFeatures(_, _, _, _)
BandsFeatures(grid, collections, palette, i) ==
    IF i > Len(collections) THEN <<>>
    ELSE PathsFeatures(grid, collections[i], LevelColor(palette, i))
         \o BandsFeatures(grid, collections, palette, i + 1)

\* whether the loops raise: some polygon of a path that is not skipped has a
\* vertex _grid_to_lonlat raises on
FeaturesRaise(grid, collections) ==
    \E i \in 1..Len(collections) : \E j \in 1..Len(collections[i]) :
        /\ ~SkipPath(collections[i][j])
        /\ \E h \in 1..Len(collections[i][j]) :
              CoordArrayRaises(grid, collections[i][j][h])

\* what one call leaves: the value returned, the exception raised, whether
\* the error was logged, and the output file with its content
Outcome(ret, e, logged, file, content) ==
    [ret |-> ret, exc |-> e, logged |-> logged, file |-> file, content |-> content]

convert(self, out_file, env) ==
    LET levels == Levels(self.min, self.max, self.contour_interval)
        features == BandsFeatures(env.grid, env.contours, self.palette, 1)
        doc == [type |-> "FeatureCollection", features |-> features]
    IN  IF self.file_type \notin SupportedTypes
        THEN Outcome(None, "none", TRUE, "absent", None)
        ELSE IF env.fault = "read"
        THEN Outcome(None, "ReadError", FALSE, "absent", None)
        ELSE IF levels.exc # "none"
        THEN Outcome(None, levels.exc, FALSE, "absent", None)
        ELSE IF FeaturesRaise(env.grid, env.contours)
        THEN Outcome(None, "IndexError", FALSE, "absent", None)
        ELSE IF out_file = None
        THEN Outcome(Some(doc), "none", FALSE, "absent", None)
        ELSE IF env.fault = "open"
        THEN Outcome(None, "OSError", FALSE, "absent", None)
        ELSE IF env.fault = "write"
        THEN Outcome(None, "OSError", FALSE, "truncated", None)
        ELSE Outcome(None, "none", FALSE, "complete", Some(doc))

\* the constructor: the fields convert reads
GeoJson(wrf_file, ftype, variable, value_range, contour_interval, palette, z_level) ==
    [wrf_file |-> wrf_file, file_type |-> ftype, variable |-> variable,
     z_level |-> z_level, min |-> value_range[1], max |-> value_range[2],
     contour_interval |-> contour_interval, palette |-> palette]

(***************************************************************************)
(* The threshold list on its own: lv holds one set of arguments and, once  *)
(* evaluated, the list.                                                    *)
(***************************************************************************)

MaxLv == 40     \* min and max range over -MaxLv..MaxLv twentieths
MaxCi == 12     \* contour_interval ranges over 1..MaxCi twentieths

InitLevels ==
    /\ lv \in [min : {5 * k : k \in -MaxLv..MaxLv},
               max : {5 * k : k \in -MaxLv..MaxLv},
               contour_interval : {5 * k : k \in 1..MaxCi},
               done : {FALSE}, out : {NotCalled}]
    /\ mp = Idle /\ cv = Idle
    /\ file_type = "" /\ products = <<>> /\ pc = "idle" /\ pi = 0 /\ zi = 0
    /\ futures = <<>> /\ wi = 0 /\ exc = "none" /\ files = <<>>

ComputeLevels ==
    /\ ~lv.done
    /\ "min" \in DOMAIN lv
    /\ lv' = [lv EXCEPT !.done = TRUE,
                        !.out = Levels(lv.min, lv.max, lv.contour_interval)]
    /\ UNCHANGED <<batchVars, mp, cv>>

NextLevels == ComputeLevels

SpecLevels == InitLevels /\ [][NextLevels]_vars

(***************************************************************************)
(* _grid_to_lonlat on its own: mp holds a grid shape and a vertex and,     *)
(* once called, the result.                                                *)
(***************************************************************************)

MaxDim == 3     \* grids of 1..MaxDim rows and columns

\* whole cells, a hair above a whole cell, and half cells, on both sides
\* of the grid and beyond its far edge
Coords ==
    {n * Micro + f : n \in -(MaxDim + 1)..(MaxDim + 1), f \in {0, 4, Micro \div 2}}
    \cup {-(Micro \div 2), -4}

InitMap ==
    /\ mp \in [grid : [rows : 1..MaxDim, cols : 1..MaxDim],
               x : Coords, y : Coords, done : {FALSE}, out : {NotCalled}]
    /\ lv = Idle /\ cv = Idle
    /\ file_type = "" /\ products = <<>> /\ pc = "idle" /\ pi = 0 /\ zi = 0
    /\ futures = <<>> /\ wi = 0 /\ exc = "none" /\ files = <<>>

CallGridToLonLat ==
    /\ ~mp.done
    /\ "grid" \in DOMAIN mp
    /\ mp' = [mp EXCEPT !.done = TRUE, !.out = grid_to_lonlat(mp.grid, mp.x, mp.y)]
    /\ UNCHANGED <<batchVars, lv, cv>>

NextMap == CallGridToLonLat

SpecMap == InitMap /\ [][NextMap]_vars

(***************************************************************************)
(* One product made by hand (_manual_product): cv holds the arguments and  *)
(* the environment of one call of convert and, once called, its outcome.   *)
(***************************************************************************)

MaxBands == 2   \* contourf returns 0..MaxBands bands

FileTypes == SupportedTypes \cup {"hdf5"}

Pt(hx, hy) == <<hx * (Micro \div 2), hy * (Micro \div 2)>>

ConvGrid == [rows |-> 3, cols |-> 3]

Square == <<Pt(0, 0), Pt(4, 0), Pt(4, 4), Pt(0, 4), Pt(0, 0)>>
Triangle == <<Pt(1, 1), Pt(3, 1), Pt(1, 3), Pt(1, 1)>>
Sliver == <<Pt(2, 2), Pt(3, 2), Pt(2, 2)>>
Outside == <<Pt(0, 0), Pt(5, 0), Pt(0, 5), Pt(0, 0)>>

EmptyPath == <<>>

\* the path lists a band may come with
BandChoices ==
    { <<>>,
      <<EmptyPath>>,
      <<<<Triangle>>>>,
      <<EmptyPath, <<Square, Triangle>>, <<Sliver>>>>,
      <<<<Square, Sliver, Sliver>>, EmptyPath, <<Triangle>>>>,
      <<<<Sliver>>, <<Outside>>>>,
      <<<<Square, Outside>>>> }

ContourSets == UNION {[1..n -> BandChoices] : n \in 0..MaxBands}

OutPath == "out.geojson.gz"

InitConvert ==
    /\ cv \in [file_type : FileTypes,
               contour_interval : {5, 50},
               out_file : {None, Some(OutPath)},
               fault : {"none", "read", "open", "write"},
               contours : ContourSets,
               done : {FALSE}, out : {NotCalled}]
    /\ lv = Idle /\ mp = Idle
    /\ file_type = "" /\ products = <<>> /\ pc = "idle" /\ pi = 0 /\ zi = 0
    /\ futures = <<>> /\ wi = 0 /\ exc = "none" /\ files = <<>>

\* _manual_product: construct the converter and call convert
ManualProduct ==
    /\ ~cv.done
    /\ "contours" \in DOMAIN cv
    /\ LET converter == GeoJson("wrfout", cv.file_type, "T", <<0, 200>>,
                                cv.contour_interval, "jet", None)
           env == [fault |-> cv.fault, grid |-> ConvGrid, contours |-> cv.contours]
       IN  cv' = [cv EXCEPT !.done = TRUE, !.out = convert(converter, cv.out_file, env)]
    /\ UNCHANGED <<batchVars, lv, mp>>

NextConvert == ManualProduct

SpecConvert == InitConvert /\ [][NextConvert]_vars

(***************************************************************************)
(* _automate_products                                                      *)
(*                                                                         *)
(* A product is a dict of the yaml list: one key per file type it names a  *)
(* variable for, "range", "contour_interval", "palette" and, for a 3D      *)
(* field, "z_levels".  A future is pending until a worker of the pool      *)
(* takes its task, running while convert runs, and then ok (convert        *)
(* returned) or error (convert raised).                                    *)
(***************************************************************************)

max_workers == 8

Extension == ".geojson.gz"

\* as OutFile, with the z-level left out of the name
OutFileWithoutLevel(wrf_file, variable, z_level) ==
    wrf_file \o "_" \o variable \o Extension

\* lines 318-319
OutFile(wrf_file, variable, z_level) ==
    (IF z_level = None THEN wrf_file \o "_" \o variable
     ELSE wrf_file \o "_" \o variable \o "_" \o Str(z_level[1]))
    \o Extension

\* as ZLevels, a product without z_levels giving no level at all
ZLevelsOrNothing(product) ==
    IF "z_levels" \in DOMAIN product
    THEN [k \in 1..Len(product.z_levels) |-> Some(product.z_levels[k])]
    ELSE <<>>

\* line 316
ZLevels(product) ==
    IF "z_levels" \in DOMAIN product
    THEN [k \in 1..Len(product.z_levels) |-> Some(product.z_levels[k])]
    ELSE <<None>>

MaxProducts == 2    \* the yaml lists 0..MaxProducts products

WrfFile == "wrfout"

ValueRange == [min |-> 0, max |-> 200]

\* two 3D fields that netcdf files hold under one name, and a 2D field whose
\* grib2 name ends like a level; only the last names a variable for hdf5
ProductChoices ==
    { [grib2 |-> [variable |-> "T"], netcdf |-> [variable |-> "T"],
       range |-> ValueRange, contour_interval |-> 50, palette |-> "jet",
       z_levels |-> <<1, 2>>],
      [grib2 |-> [variable |-> "U"], netcdf |-> [variable |-> "T"],
       range |-> ValueRange, contour_interval |-> 50, palette |-> "hot",
       z_levels |-> <<2>>],
      [grib2 |-> [variable |-> "T_2"], netcdf |-> [variable |-> "V"],
       hdf5 |-> [variable |-> "V"],
       range |-> ValueRange, contour_interval |-> 50, palette |-> "jet"] }

ProductLists == UNION {[1..n -> ProductChoices] : n \in 0..MaxProducts}

\* what the source file holds, the same for every task
BatchContours == <<<<<<Triangle>>>>>>

\* what may go wrong in a task of a batch run: nothing, or the reader raises
BatchFaults == {"none", "read"}

Init ==
    /\ file_type \in FileTypes
    /\ products \in ProductLists
    /\ pc = "product" /\ pi = 1 /\ zi = 1
    /\ futures = <<>> /\ wi = 1 /\ exc = "none"
    /\ files = <<>>
    /\ lv = Idle /\ mp = Idle /\ cv = Idle

Tasks == 1..Len(futures)

Running == {t \in Tasks : futures[t].state = "running"}

\* line 311: the loop is over
DispatchDone ==
    /\ pc = "product" /\ pi > Len(products)
    /\ pc' = "wait"
    /\ UNCHANGED <<file_type, products, pi, zi, futures, wi, exc, files, lv, mp, cv>>

\* line 312: the product names no variable for this file type
ProductKeyError ==
    /\ pc = "product" /\ pi <= Len(products)
    /\ file_type \notin DOMAIN products[pi]
    /\ pc' = "raised" /\ exc' = "KeyError"
    /\ UNCHANGED <<file_type, products, pi, zi, futures, wi, files, lv, mp, cv>>

\* lines 312-317: read the product and enter the loop over its z-levels
NextProduct ==
    /\ pc = "product" /\ pi <= Len(products)
    /\ file_type \in DOMAIN products[pi]
    /\ IF Len(ZLevels(products[pi])) = 0
       THEN pi' = pi + 1 /\ pc' = "product"
       ELSE pi' = pi /\ pc' = "submit"
    /\ zi' = 1
    /\ UNCHANGED <<file_type, products, futures, wi, exc, files, lv, mp, cv>>

\* lines 318-322: one pass of the inner loop
Submit ==
    /\ pc = "submit"
    /\ LET product == products[pi]
           variable == product[file_type].variable
           value_range == <<product.range.min, product.range.max>>
           z_levels == ZLevels(product)
           z_level == z_levels[zi]
           out_file == OutFile(WrfFile, variable, z_level)
           converter == GeoJson(WrfFile, file_type, variable, value_range,
                                product.contour_interval, product.palette, z_level)
       IN  /\ futures' = Append(futures, [converter |-> converter,
                                          out_file |-> out_file,
                                          state |-> "pending",
                                          exception |-> "none"])
           /\ IF zi < Len(z_levels)
              THEN zi' = zi + 1 /\ pi' = pi /\ pc' = "submit"
              ELSE zi' = 1 /\ pi' = pi + 1 /\ pc' = "product"
    /\ UNCHANGED <<file_type, products, wi, exc, files, lv, mp, cv>>

\* a worker of the pool takes a pending task
Start(t) ==
    /\ futures[t].state = "pending"
    /\ Cardinality(Running) < max_workers
    /\ futures' = [futures EXCEPT ![t].state = "running"]
    /\ UNCHANGED <<file_type, products, pc, pi, zi, wi, exc, files, lv, mp, cv>>

\* the worker runs converter.convert(out_file) and sets the future
Finish(t) ==
    /\ futures[t].state = "running"
    /\ \E fault \in BatchFaults :
       \E r \in {convert(futures[t].converter, Some(futures[t].out_file),
                         [fault |-> fault, grid |-> ConvGrid,
                          contours |-> BatchContours])} :
         LET out_file == futures[t].out_file
             old == IF out_file \in DOMAIN files THEN files[out_file].writers ELSE {}
         IN  /\ futures' = [futures EXCEPT
                              ![t].state = IF r.exc = "none" THEN "ok" ELSE "error",
                              ![t].exception = r.exc]
             /\ files' = IF r.file = "absent" THEN files
                         ELSE [f \in DOMAIN files \cup {out_file} |->
                                 IF f = out_file
                                 THEN [state |-> r.file, content |-> r.content,
                                       writers |-> old \cup {t}]
                                 ELSE files[f]]
    /\ UNCHANGED <<file_type, products, pc, pi, zi, wi, exc, lv, mp, cv>>

\* lines 324-325: future.result() returns
WaitResult ==
    /\ pc = "wait" /\ wi <= Len(futures)
    /\ futures[wi].state = "ok"
    /\ wi' = wi + 1
    /\ UNCHANGED <<file_type, products, pc, pi, zi, futures, exc, files, lv, mp, cv>>

\* line 325: future.result() raises the exception of the task
WaitRaise ==
    /\ pc = "wait" /\ wi <= Len(futures)
    /\ futures[wi].state = "error"
    /\ pc' = "raised" /\ exc' = futures[wi].exception
    /\ UNCHANGED <<file_type, products, pi, zi, futures, wi, files, lv, mp, cv>>

\* line 324: the loop is over
Return ==
    /\ pc = "wait" /\ wi > Len(futures)
    /\ pc' = "returned"
    /\ UNCHANGED <<file_type, products, pi, zi, futures, wi, exc, files, lv, mp, cv>>

Next ==
    \/ DispatchDone
    \/ ProductKeyError
    \/ NextProduct
    \/ Submit
    \/ \E t \in Tasks : Start(t)
    \/ \E t \in Tasks : Finish(t)
    \/ WaitResult
    \/ WaitRaise
    \/ Return

Spec == Init /\ [][Next]_vars

\* a task that never finishes: its worker blocks in the reader or the write
Hang(t) ==
    /\ futures[t].state = "running"
    /\ futures' = [futures EXCEPT ![t].state = "hung"]
    /\ UNCHANGED <<file_type, products, pc, pi, zi, wi, exc, files, lv, mp, cv>>

NextHang == Next \/ \E t \in Tasks : Hang(t)

\* every step that can be taken is taken in the end: the scheduler and the
\* workers run until they finish or block
FairSpec == Init /\ [][NextHang]_vars /\ WF_vars(NextHang)

(***************************************************************************)
(* Properties of the batch run                                             *)
(***************************************************************************)

Ended == pc \in {"returned", "raised"}

\* the loop over the products ran to its end: every task has been submitted
DispatchComplete == pc \in {"wait", "returned"} \/ (pc = "raised" /\ exc # "KeyError")

\* the tasks whose future.result() has returned to the scheduler
Collected == {t \in Tasks : t < wi}

Finished(t) == futures[t].state \in {"ok", "error"}

\* C1: when a batch run whose tasks were all dispatched has ended, with or
\* without a failed task, every task that completed has been reported as
\* successful: the scheduler has collected its result.
C1_FailureIsolation ==
    (Ended /\ DispatchComplete) =>
        \A t \in Tasks : futures[t].state = "ok" => t \in Collected

\* C2: when _automate_products has returned or raised after a task's
\* failure, no dispatched task is still pending or running.
C2_BlocksUntilAllDone ==
    (Ended /\ DispatchComplete) => \A t \in Tasks : Finished(t)

\* C3: the batch run ends in every run, also when a task never finishes.
C3_ReturnsDespiteHungTask == <>Ended

\* C5: a finished task whose file type is not supported is recorded as
\* failed, and has written no file.
C5_UnsupportedFormatReported ==
    \A t \in Tasks :
        (futures[t].converter.file_type \notin SupportedTypes /\ Finished(t)) =>
            /\ futures[t].state = "error"
            /\ futures[t].out_file \notin DOMAIN files

\* the number of tasks a product stands for
LevelCount(product) ==
    IF "z_levels" \in DOMAIN product THEN Len(product.z_levels) ELSE 1

RECURSIVE TasksBefore(_)
TasksBefore(p) == IF p <= 1 THEN 0 ELSE TasksBefore(p - 1) + LevelCount(products[p - 1])

\* the (product, z-level) pair the t-th task stands for
PairOf(t) ==
    CHOOSE pk \in UNION {{<<p, k>> : k \in 1..LevelCount(products[p])} :
                            p \in 1..Len(products)} :
        TasksBefore(pk[1]) + pk[2] = t

ExpectedPath(variable, product, k) ==
    IF "z_levels" \in DOMAIN product
    THEN "wrfout_" \o variable \o "_" \o Str(product.z_levels[k]) \o ".geojson.gz"
    ELSE "wrfout_" \o variable \o ".geojson.gz"

\* C6: the tasks dispatched are, in order, one per (product, z-level) pair,
\* a product without z_levels counting as one pair with no level, and each
\* has the output path <source-file>_<variable>[_<z-level>].geojson.gz;
\* once the dispatch is complete there is a task for every pair.
C6_OneTaskPerPair ==
    /\ \A t \in Tasks :
          LET product == products[PairOf(t)[1]]
              k == PairOf(t)[2]
              variable == product[file_type].variable
              task == futures[t]
          IN  /\ task.converter.variable = variable
              /\ task.converter.z_level =
                    (IF "z_levels" \in DOMAIN product
                     THEN Some(product.z_levels[k]) ELSE None)
              /\ task.out_file = ExpectedPath(variable, product, k)
    /\ DispatchComplete => Len(futures) = TasksBefore(Len(products) + 1)

C6_Witness ==
    /\ pc = "returned"
    /\ Len(futures) = 3
    /\ \E t \in Tasks : futures[t].converter.z_level = None
    /\ \E t \in Tasks : futures[t].converter.z_level = Some(2)

\* the part of a task's output path that is its own
NameOf(t) ==
    LET c == futures[t].converter
    IN  IF c.z_level = None THEN c.variable ELSE c.variable \o "_" \o Str(c.z_level[1])

DistinctPaths == \A i, j \in Tasks : i # j => futures[i].out_file # futures[j].out_file

OneWriterPerFile == \A f \in DOMAIN files : Cardinality(files[f].writers) <= 1

\* C10 as claimed: no two dispatched tasks have the same output path, and
\* no output file is written by more than one task.
C10_Original == DistinctPaths /\ OneWriterPerFile

\* C10 as amended: when the names <variable>[_<z-level>] of the dispatched
\* tasks are pairwise distinct, so are their output paths, and no output
\* file is written by more than one task.
C10_DistinctNamesDistinctFiles ==
    (\A i, j \in Tasks : i # j => NameOf(i) # NameOf(j)) =>
        (DistinctPaths /\ OneWriterPerFile)

C10_Witness ==
    /\ pc = "returned"
    /\ Len(futures) = 3
    /\ \A i, j \in Tasks : i # j => NameOf(i) # NameOf(j)
    /\ Cardinality(DOMAIN files) = 3

(***************************************************************************)
(* Properties of one conversion                                            *)
(***************************************************************************)

\* C4: a conversion that raised has returned no document and has left no
\* output file behind.
C4_AllOrNothing ==
    (cv.done /\ cv.out.exc # "none") =>
        (cv.out.ret = None /\ cv.out.file = "absent")

\* the document of a conversion that succeeded, returned or written
Produced == cv.done /\ (cv.out.ret # None \/ cv.out.content # None)

Doc == IF cv.out.ret # None THEN cv.out.ret[1] ELSE cv.out.content[1]

\* the paths that have an outer ring, as <<band, path>>
NonDegenerate ==
    UNION {{<<i, j>> : j \in {n \in 1..Len(cv.contours[i]) : Len(cv.contours[i][n]) > 0}} :
              i \in 1..Len(cv.contours)}

\* the position of a path among them: bands ascending, then the order of
\* the paths in the band
Rank(ij) ==
    Cardinality({q \in NonDegenerate :
                    q[1] < ij[1] \/ (q[1] = ij[1] /\ q[2] <= ij[2])})

\* C7: the features of a conversion are the paths that have an outer ring,
\* in ascending band order and then path order, each with the colour of its
\* band and the rings of its path; a path without one gives no feature.
C7_FeaturesFollowPaths ==
    Produced =>
        /\ Len(Doc.features) = Cardinality(NonDegenerate)
        /\ \A ij \in NonDegenerate :
              LET feature == Doc.features[Rank(ij)]
                  path == cv.contours[ij[1]][ij[2]]
                  rings == feature.geometry.coordinates[1]
              IN  /\ feature.properties.fill = <<"jet", ij[1]>>
                  /\ Len(feature.geometry.coordinates) = 1
                  /\ Len(rings) = Len(path)
                  /\ \A h \in 1..Len(path) : Len(rings[h]) = Len(path[h])

C7_Witness ==
    /\ Produced
    /\ Len(cv.contours) = 2
    /\ \E j \in 1..Len(cv.contours[1]) : Len(cv.contours[1][j]) = 0
    /\ Len(Doc.features) = 4
    /\ Doc.features[1].properties.fill # Doc.features[4].properties.fill

(***************************************************************************)
(* Properties of the threshold list                                        *)
(***************************************************************************)

\* min, min + interval, ... as far as they stay below max
ExpectedLevels(min, max, interval) ==
    [k \in 1..((max - min + interval - 1) \div interval) |-> min + (k - 1) * interval]

WholeTenths == lv.min % 10 = 0 /\ lv.max % 10 = 0 /\ lv.contour_interval % 10 = 0

InsideGrid ==
    /\ 0 <= mp.x /\ mp.x <= (mp.grid.cols - 1) * Micro
    /\ 0 <= mp.y /\ mp.y <= (mp.grid.rows - 1) * Micro

\* C9: _grid_to_lonlat returns a coordinate for the vertices inside the grid
\* extent and raises for every vertex outside of it.
C9_OutOfBoundsRaises ==
    mp.done => (InsideGrid <=> mp.out.exc = "none")

=============================================================================
